---- MODULE Spec2Model ----
(***************************************************************************)
(* The parse -> normalize -> bind pipeline of the Hibernate Bind           *)
(* Visualizer (hibernate_bind_visualizer_app.py): parse_logs, normalize,   *)
(* bind_sql and process.                                                   *)
(*                                                                         *)
(* Python strings are sequences of one-character strings.  Python's None   *)
(* is the one-element sequence <<"None">>, which is no character sequence  *)
(* and no message.  A diagnostic built by an f-string is the tuple of the  *)
(* f-string's fragments: the literal pieces are TLA+ strings, an           *)
(* interpolated integer is the integer, an interpolated string is its      *)
(* character sequence.                                                     *)
(***************************************************************************)
EXTENDS Integers, Sequences, FiniteSets

VARIABLES sql, logs, expand_in, param, results, parsed, normalized, pc

vars == <<sql, logs, expand_in, param, results, parsed, normalized, pc>>

None == <<"None">>

(***************************************************************************)
(* str methods and builtins used by the pipeline                           *)
(***************************************************************************)
UpperLetters ==
  <<"A","B","C","D","E","F","G","H","I","J","K","L","M",
    "N","O","P","Q","R","S","T","U","V","W","X","Y","Z">>

LowerLetters ==
  <<"a","b","c","d","e","f","g","h","i","j","k","l","m",
    "n","o","p","q","r","s","t","u","v","w","x","y","z">>

Digits == <<"0","1","2","3","4","5","6","7","8","9">>

\* the characters str.strip() removes that a captured value can hold
Whitespace == {" ", "\t"}

Position(seq, c) == CHOOSE i \in 1..Len(seq) : seq[i] = c

IsIn(seq, c) == \E i \in 1..Len(seq) : seq[i] = c

\* str.lower()
lower(s) ==
  [i \in 1..Len(s) |->
     IF IsIn(UpperLetters, s[i]) THEN LowerLetters[Position(UpperLetters, s[i])]
     ELSE s[i]]

\* str.upper()
upper(s) ==
  [i \in 1..Len(s) |->
     IF IsIn(LowerLetters, s[i]) THEN UpperLetters[Position(LowerLetters, s[i])]
     ELSE s[i]]

\* str.strip()
strip(s) ==
  LET keep == {i \in 1..Len(s) : s[i] \notin Whitespace}
      first == CHOOSE i \in keep : \A j \in keep : i <= j
      last == CHOOSE i \in keep : \A j \in keep : j <= i
  IN IF keep = {} THEN <<>> ELSE SubSeq(s, first, last)

\* str.count(c) for a one-character c
count(s, c) == Cardinality({i \in 1..Len(s) : s[i] = c})

\* str.find(c), 1-based; 0 when c does not occur
find(s, c) ==
  IF IsIn(s, c) THEN CHOOSE i \in 1..Len(s) : s[i] = c /\ \A j \in 1..(i - 1) : s[j] # c
  ELSE 0

\* str.replace(c, new, 1)
replace_first(s, c, new) ==
  LET k == find(s, c)
  IN IF k = 0 THEN s ELSE SubSeq(s, 1, k - 1) \o new \o SubSeq(s, k + 1, Len(s))

\* str.replace(c, new)
RECURSIVE replace(_, _, _)
replace(s, c, new) ==
  IF s = <<>> THEN <<>>
  ELSE (IF Head(s) = c THEN new ELSE <<Head(s)>>) \o replace(Tail(s), c, new)

\* str.split(c)
RECURSIVE split(_, _)
split(s, c) ==
  LET k == find(s, c)
  IN IF k = 0 THEN <<s>>
     ELSE <<SubSeq(s, 1, k - 1)>> \o split(SubSeq(s, k + 1, Len(s)), c)

\* sep.join(parts)
RECURSIVE join(_, _)
join(sep, parts) ==
  IF parts = <<>> THEN <<>>
  ELSE IF Len(parts) = 1 THEN parts[1]
  ELSE parts[1] \o sep \o join(sep, Tail(parts))

\* int(s) for a string of decimal digits
RECURSIVE int(_)
int(s) ==
  IF s = <<>> THEN 0
  ELSE 10 * int(SubSeq(s, 1, Len(s) - 1)) + (Position(Digits, s[Len(s)]) - 1)

\* sorted(keys) for a list of distinct integers
RECURSIVE SortSet(_)
SortSet(S) ==
  IF S = {} THEN <<>>
  ELSE LET m == CHOOSE x \in S : \A y \in S : x <= y
       IN <<m>> \o SortSet(S \ {m})

sorted_Unsorted(keys) == keys

sorted(keys) == SortSet({keys[k] : k \in 1..Len(keys)})

\* list(range(1, n + 1))
range1(n) == [i \in 1..n |-> i]

\* re.fullmatch(r"-?\d+(\.\d+)?", s)
AllDigits(s) == s # <<>> /\ \A i \in 1..Len(s) : IsIn(Digits, s[i])

fullmatch_numeric(s) ==
  LET body == IF s # <<>> /\ Head(s) = "-" THEN Tail(s) ELSE s
      dot == find(body, ".")
  IN IF dot = 0 THEN AllDigits(body)
     ELSE AllDigits(SubSeq(body, 1, dot - 1)) /\ AllDigits(SubSeq(body, dot + 1, Len(body)))

(***************************************************************************)
(* Type tables                                                             *)
(***************************************************************************)
VARCHAR == <<"V","A","R","C","H","A","R">>
CHAR == <<"C","H","A","R">>
LONGVARCHAR == <<"L","O","N","G","V","A","R","C","H","A","R">>
INTEGER == <<"I","N","T","E","G","E","R">>
BIGINT == <<"B","I","G","I","N","T">>
DECIMAL == <<"D","E","C","I","M","A","L">>
DOUBLE == <<"D","O","U","B","L","E">>
BOOLEAN_ == <<"B","O","O","L","E","A","N">>
DATE == <<"D","A","T","E">>
TIMESTAMP == <<"T","I","M","E","S","T","A","M","P">>

STRING_TYPES == {VARCHAR, CHAR, LONGVARCHAR}
NUMERIC_TYPES == {INTEGER, BIGINT, DECIMAL, DOUBLE}
BOOLEAN_TYPES == {BOOLEAN_}
DATE_TYPES == {DATE, TIMESTAMP}

\* Parameter(index=..., type=..., original=..., normalized="", error=None)
Parameter(index, type, original) ==
  [index |-> index, type |-> type, original |-> original,
   normalized |-> <<>>, error |-> None]

(***************************************************************************)
(* parse_logs                                                              *)
(*                                                                         *)
(* The log text is a sequence of lines                                     *)
(*   binding parameter [idx] as [typ] - [rest                              *)
(* with idx a run of digits, typ a run of word characters and rest the     *)
(* text up to the end of the line.  The pattern's non-greedy (.*?)\] takes *)
(* as value the text before the first "]" of rest; a line whose rest has   *)
(* no "]" does not match.                                                  *)
(***************************************************************************)
Matches(line) == IsIn(line.rest, "]")

\* match.groups()
groups(line) ==
  [idx |-> line.idx, typ |-> line.typ,
   value |-> SubSeq(line.rest, 1, find(line.rest, "]") - 1)]

\* pattern.finditer(text): the groups of the matches, in text order
finditer(text) ==
  LET hits == SelectSeq(text, Matches)
  IN [k \in 1..Len(hits) |-> groups(hits[k])]

DuplicateWarning(idx_int) ==
  <<"Duplicate parameter index ", idx_int, "; ignoring subsequent value.">>

NotContiguousWarning == <<"Parameter indexes are not contiguous starting at 1.">>

\* params: dict[int, Parameter], a dict keeping insertion order, is the
\* sequence of its values; the key of a value is its index.
keys(d) == [k \in 1..Len(d) |-> d[k].index]

contains(d, i) == \E k \in 1..Len(d) : d[k].index = i

getitem(d, i) == d[CHOOSE k \in 1..Len(d) : d[k].index = i]

\* one iteration of the for loop over the matches; st = [params, warnings]
ParseStep_LastWins(st, match) ==
  LET idx_int == int(match.idx)
      typ_upper == upper(match.typ)
  IN IF contains(st.params, idx_int)
     THEN [params |-> [k \in 1..Len(st.params) |->
                         IF st.params[k].index = idx_int
                         THEN Parameter(idx_int, typ_upper, match.value)
                         ELSE st.params[k]],
           warnings |-> Append(st.warnings, DuplicateWarning(idx_int))]
     ELSE [st EXCEPT !.params = Append(@, Parameter(idx_int, typ_upper, match.value))]

ParseStep(st, match) ==
  LET idx_int == int(match.idx)
      typ_upper == upper(match.typ)
  IN IF contains(st.params, idx_int)
     THEN [st EXCEPT !.warnings = Append(@, DuplicateWarning(idx_int))]
     ELSE [st EXCEPT !.params = Append(@, Parameter(idx_int, typ_upper, match.value))]

RECURSIVE ParseLoop(_, _)
ParseLoop(st, matches) ==
  IF matches = <<>> THEN st
  ELSE ParseLoop(ParseStep(st, Head(matches)), Tail(matches))

\* ordered_indexes and ordered_indexes != list(range(1, len(ordered_indexes) + 1))
not_contiguous_FromZero(ordered_indexes) ==
  /\ ordered_indexes # <<>>
  /\ ordered_indexes # [k \in 1..Len(ordered_indexes) |-> k - 1]

not_contiguous(ordered_indexes) ==
  /\ ordered_indexes # <<>>
  /\ ordered_indexes # range1(Len(ordered_indexes))

parse_logs(text) ==
  LET st == ParseLoop([params |-> <<>>, warnings |-> <<>>], finditer(text))
      ordered_indexes == sorted(keys(st.params))
      warnings ==
        IF not_contiguous(ordered_indexes)
        THEN Append(st.warnings, NotContiguousWarning)
        ELSE st.warnings
      ordered_params ==
        [k \in 1..Len(ordered_indexes) |-> getitem(st.params, ordered_indexes[k])]
  IN [params |-> ordered_params, warnings |-> warnings]

(***************************************************************************)
(* normalize: the parameter and the diagnostics list are mutated in place; *)
(* the operator returns both as they are when normalize returns.           *)
(***************************************************************************)
NULL == <<"N","U","L","L">>

InvalidBoolean(val) == <<"Invalid boolean value '", val, "'">>

NonNumeric(val, typ) == <<"Non-numeric value '", val, "' for ", typ>>

ExpandedNote(index) == <<"Expanded parameter ", index, " into IN list.">>

UnknownTypeNote(typ) == <<"Unknown JDBC type ", typ, "; inserted raw value.">>

\* "'" + p.replace("'", "''") + "'"
quote_NoEscape(p) == <<"'">> \o p \o <<"'">>

quote(p) == <<"'">> \o replace(p, "'", <<"'", "'">>) \o <<"'">>

\* val.lower() == "null"
is_null_CaseSensitive(val) == val = <<"n","u","l","l">>

is_null(val) == lower(val) = <<"n","u","l","l">>

normalize(p, diagnostics, expand) ==
  LET typ == p.type
      val == p.original
      out(q, d) == [param |-> q, diagnostics |-> d]
  IN IF is_null(val)
     THEN out([p EXCEPT !.normalized = NULL], diagnostics)
     ELSE IF typ \in BOOLEAN_TYPES
     THEN LET v == lower(val)
          IN IF v = <<"t","r","u","e">>
             THEN out([p EXCEPT !.normalized = <<"1">>], diagnostics)
             ELSE IF v = <<"f","a","l","s","e">>
             THEN out([p EXCEPT !.normalized = <<"0">>], diagnostics)
             ELSE out([p EXCEPT !.error = InvalidBoolean(val)], diagnostics)
     ELSE IF typ \in STRING_TYPES
     THEN IF expand /\ IsIn(val, ",")
          THEN LET raw == split(val, ",")
                   parts == [k \in 1..Len(raw) |-> strip(raw[k])]
                   quoted == [k \in 1..Len(parts) |-> quote(parts[k])]
               IN out([p EXCEPT !.normalized = <<"(">> \o join(<<",">>, quoted) \o <<")">>],
                      Append(diagnostics, ExpandedNote(p.index)))
          ELSE out([p EXCEPT !.normalized = quote(val)], diagnostics)
     ELSE IF typ \in NUMERIC_TYPES
     THEN IF fullmatch_numeric(strip(val))
          THEN out([p EXCEPT !.normalized = strip(val)], diagnostics)
          ELSE out([p EXCEPT !.error = NonNumeric(val, typ)], diagnostics)
     ELSE IF typ \in DATE_TYPES
     THEN out([p EXCEPT !.normalized = <<"'">> \o val \o <<"'">>], diagnostics)
     ELSE out([p EXCEPT !.normalized = val], Append(diagnostics, UnknownTypeNote(typ)))

(***************************************************************************)
(* bind_sql                                                                *)
(***************************************************************************)
\* bound.replace("?", p["normalized"]) with the count left out
RECURSIVE bind_sql_ReplaceAll(_, _)
bind_sql_ReplaceAll(bound, params) ==
  IF params = <<>> THEN bound
  ELSE bind_sql_ReplaceAll(replace(bound, "?", Head(params).normalized), Tail(params))

RECURSIVE bind_sql(_, _)
bind_sql(bound, params) ==
  IF params = <<>> THEN bound
  ELSE bind_sql(replace_first(bound, "?", Head(params).normalized), Tail(params))

(***************************************************************************)
(* process                                                                 *)
(***************************************************************************)
ParameterError(p) == <<"Parameter ", p.index, " error: ", p.error>>

PlaceholderMismatch(placeholders, n) ==
  <<"Placeholder count (", placeholders, ") does not match parameter count (", n, ").">>

\* for p in params: normalize(p, diagnostics, expand_in); st = [params, diagnostics]
RECURSIVE NormalizeLoop(_, _, _)
NormalizeLoop(st, k, expand) ==
  IF k > Len(st.params) THEN st
  ELSE LET r == normalize(st.params[k], st.diagnostics, expand)
       IN NormalizeLoop([params |-> [st.params EXCEPT ![k] = r.param],
                         diagnostics |-> r.diagnostics], k + 1, expand)

\* for p in errors: diagnostics.append(f"Parameter {p['index']} error: {p['error']}")
RECURSIVE ReportErrors(_, _)
ReportErrors(diagnostics, errors) ==
  IF errors = <<>> THEN diagnostics
  ELSE ReportErrors(Append(diagnostics, ParameterError(Head(errors))), Tail(errors))

HasError(p) == p.error # None

Results(params, placeholders, final_sql, diagnostics) ==
  [params |-> params, placeholders |-> placeholders, param_count |-> Len(params),
   final_sql |-> final_sql, diagnostics |-> diagnostics]

\* the if / elif / else of process and its return value
gate_NoCountCheck(sql_, params, placeholders, diagnostics) ==
  LET errors == SelectSeq(params, HasError)
  IN IF errors # <<>>
     THEN Results(params, placeholders, None, ReportErrors(diagnostics, errors))
     ELSE Results(params, placeholders, bind_sql(sql_, params), diagnostics)

gate_IfNotElif(sql_, params, placeholders, diagnostics) ==
  LET errors == SelectSeq(params, HasError)
      reported == ReportErrors(diagnostics, errors)
  IN IF placeholders # Len(params)
     THEN Results(params, placeholders, None,
                  Append(reported, PlaceholderMismatch(placeholders, Len(params))))
     ELSE IF errors # <<>>
     THEN Results(params, placeholders, None, reported)
     ELSE Results(params, placeholders, bind_sql(sql_, params), diagnostics)

gate(sql_, params, placeholders, diagnostics) ==
  LET errors == SelectSeq(params, HasError)
  IN IF errors # <<>>
     THEN Results(params, placeholders, None, ReportErrors(diagnostics, errors))
     ELSE IF placeholders # Len(params)
     THEN Results(params, placeholders, None,
                  Append(diagnostics, PlaceholderMismatch(placeholders, Len(params))))
     ELSE Results(params, placeholders, bind_sql(sql_, params), diagnostics)

process(sql_, logs_, expand) ==
  LET pl == parse_logs(logs_)
      placeholders == count(sql_, "?")
      st == NormalizeLoop([params |-> pl.params, diagnostics |-> pl.warnings], 1, expand)
  IN gate(sql_, st.params, placeholders, st.diagnostics)

(***************************************************************************)
(* Inputs                                                                  *)
(***************************************************************************)
MaxSqlLen == 3
MaxLines == 2
MaxParseLines == 3
MaxValLen == 3

SeqsUpTo(S, n) == UNION {[1..k -> S] : k \in 0..n}

LogLine(idx, typ, rest) == [idx |-> idx, typ |-> typ, rest |-> rest]

\* SQL templates: placeholder markers and other text
SqlAlphabet == {"?", "a"}

Templates == SeqsUpTo(SqlAlphabet, MaxSqlLen)

\* log lines given to process: <<typ, rest>> under each index
ProcessIndexes == {<<"1">>, <<"2">>, <<"5">>}

ProcessTypedRests ==
  { <<INTEGER, <<"5", "]">>>>,
    <<INTEGER, <<"x", "?", "]">>>>,
    <<DECIMAL, <<" ", "-", "1", ".", "5", "]">>>>,
    <<BOOLEAN_, <<"M", "a", "y", "b", "e", "]">>>>,
    <<BOOLEAN_, <<"N", "u", "l", "l", "]">>>>,
    <<VARCHAR, <<"?", ",", "b", "]">>>>,
    <<<<"u", "u", "i", "d">>, <<"x", "]">>>> }

ProcessLines ==
  {LogLine(i, tr[1], tr[2]) : i \in ProcessIndexes, tr \in ProcessTypedRests}

ProcessLogs == SeqsUpTo(ProcessLines, MaxLines)

\* log lines given to parse_logs: leading zeros, index 0, a lower-case type,
\* a value cut at the first "]", and a line the pattern does not match
ParseIndexes == {<<"0">>, <<"1">>, <<"2">>, <<"3">>, <<"0", "1">>}

ParseTypedRests ==
  { <<<<"v","a","r","c","h","a","r">>, <<"x", "]", "y", "]">>>>,
    <<INTEGER, <<"5", "]">>>>,
    <<INTEGER, <<"x">>>> }

ParseLines ==
  {LogLine(i, tr[1], tr[2]) : i \in ParseIndexes, tr \in ParseTypedRests}

ParseLogs == SeqsUpTo(ParseLines, MaxParseLines)

\* parameters given to normalize, as parse_logs builds them
KnownTypes == STRING_TYPES \cup NUMERIC_TYPES \cup BOOLEAN_TYPES \cup DATE_TYPES

ParamTypes == KnownTypes \cup {<<"U","U","I","D">>}

ValueAlphabet == {"a", ",", "'", " ", "5", ".", "-"}

ValueWords ==
  { <<"n","u","l","l">>, <<"N","U","L","L">>, <<"N","u","l","l">>,
    <<"t","r","u","e">>, <<"F","A","L","S","E">>, <<"M","a","y","b","e">>,
    <<"i","t","'","s">>, <<"R","E","A","L",",","F","A","K","E">>,
    <<" ","n","u","l","l">> }

Values == SeqsUpTo(ValueAlphabet, MaxValLen) \cup ValueWords

\* <<index, diagnostics so far>> at the call of normalize
NormalizeCalls == {<<1, <<>>>>, <<2, <<NotContiguousWarning>>>>}

(***************************************************************************)
(* Specifications: the inputs are drawn in the initial state and one       *)
(* action applies the function.                                            *)
(***************************************************************************)
Init ==
  /\ sql \in Templates
  /\ logs \in ProcessLogs
  /\ expand_in \in BOOLEAN
  /\ param = None
  /\ results = None
  /\ parsed = None
  /\ normalized = None
  /\ pc = "start"

Process ==
  /\ pc = "start"
  /\ results' = process(sql, logs, expand_in)
  /\ pc' = "done"
  /\ UNCHANGED <<sql, logs, expand_in, param, parsed, normalized>>

Next == Process

Spec == Init /\ [][Next]_vars

InitParse ==
  /\ sql = <<>>
  /\ logs \in ParseLogs
  /\ expand_in = TRUE
  /\ param = None
  /\ results = None
  /\ parsed = None
  /\ normalized = None
  /\ pc = "start"

ParseLogsCall ==
  /\ pc = "start"
  /\ parsed' = parse_logs(logs)
  /\ pc' = "done"
  /\ UNCHANGED <<sql, logs, expand_in, param, results, normalized>>

NextParse == ParseLogsCall

SpecParse == InitParse /\ [][NextParse]_vars

InitNormalize ==
  /\ sql = <<>>
  /\ logs = <<>>
  /\ expand_in \in BOOLEAN
  /\ \E c \in NormalizeCalls, t \in ParamTypes, v \in Values :
       param = [param |-> Parameter(c[1], t, v), diagnostics |-> c[2]]
  /\ results = None
  /\ parsed = None
  /\ normalized = None
  /\ pc = "start"

NormalizeCall ==
  /\ pc = "start"
  /\ normalized' = normalize(param.param, param.diagnostics, expand_in)
  /\ pc' = "done"
  /\ UNCHANGED <<sql, logs, expand_in, param, results, parsed>>

NextNormalize == NormalizeCall

SpecNormalize == InitNormalize /\ [][NextNormalize]_vars

(***************************************************************************)
(* Properties                                                              *)
(***************************************************************************)
Placeholders(template) == {i \in 1..Len(template) : template[i] = "?"}

NoErrors(params) == \A k \in 1..Len(params) : params[k].error = None

IndexSet(params) == {params[k].index : k \in 1..Len(params)}

\* the template read once, left to right, the k-th "?" giving way to literals[k]
RECURSIVE OrdinalSubstitution(_, _)
OrdinalSubstitution(template, literals) ==
  IF template = <<>> THEN <<>>
  ELSE IF Head(template) = "?" /\ literals # <<>>
  THEN Head(literals) \o OrdinalSubstitution(Tail(template), Tail(literals))
  ELSE <<Head(template)>> \o OrdinalSubstitution(Tail(template), literals)

Literals(params) == [k \in 1..Len(params) |-> params[k].normalized]

IsParameterError(m) == m[1] = "Parameter "

IsMismatch(m) == m[1] = "Placeholder count ("

IsDuplicate(m) == m[1] = "Duplicate parameter index "

IsExpanded(m) == m[1] = "Expanded parameter "

Occurrences(seq, m) == Cardinality({i \in 1..Len(seq) : seq[i] = m})

\* C1: process returns a final SQL if and only if no binding carries a
\* normalization error and the template has as many "?" as there are bindings.
C1_FinalSqlIff ==
  pc = "done" =>
    ((results.final_sql # None) <=>
       (NoErrors(results.params)
        /\ Cardinality(Placeholders(sql)) = Len(results.params)))

C1_Witness ==
  /\ pc = "done"
  /\ results.final_sql # None
  /\ Len(results.params) = 2

\* C2: whenever substitution is performed, the final SQL is the template with
\* its k-th "?" replaced by the k-th binding's literal, whatever the literal holds.
C2_OrdinalSubstitution ==
  (pc = "done" /\ results.final_sql # None) =>
    results.final_sql = OrdinalSubstitution(sql, Literals(results.params))

\* C3: with an erroring binding, diagnostics gets one "Parameter i error" entry
\* per erroring binding, in ascending index order, and no mismatch message; the
\* mismatch message appears exactly when no binding errs and the counts differ;
\* without a final SQL exactly one of the two kinds is present.
C3_ValidationGate ==
  pc = "done" =>
    LET P == results.params
        D == results.diagnostics
        erring == SelectSeq(P, LAMBDA q : q.error # None)
        reported == SelectSeq(D, IsParameterError)
        mismatches == SelectSeq(D, IsMismatch)
        differ == Cardinality(Placeholders(sql)) # Len(P)
    IN /\ Len(reported) = Len(erring)
       /\ \A k \in 1..Len(erring) :
            reported[k] = <<"Parameter ", erring[k].index, " error: ", erring[k].error>>
       /\ \A k \in 1..(Len(reported) - 1) : reported[k][2] < reported[k + 1][2]
       /\ erring # <<>> => mismatches = <<>>
       /\ (erring = <<>> /\ differ) =>
            mismatches = << <<"Placeholder count (", Cardinality(Placeholders(sql)),
                              ") does not match parameter count (", Len(P), ").">> >>
       /\ (erring = <<>> /\ ~differ) => mismatches = <<>>
       /\ results.final_sql = None => ((reported # <<>>) # (mismatches # <<>>))

C3_Witness ==
  /\ pc = "done"
  /\ Len(SelectSeq(results.diagnostics, IsParameterError)) = 2
  /\ Cardinality(Placeholders(sql)) # Len(results.params)

\* C4: for each distinct index parse_logs keeps the type and raw value of the
\* first matched record carrying it, and warns once per discarded record.
C4_FirstOccurrenceWins ==
  pc = "done" =>
    LET M == finditer(logs)
        P == parsed.params
        W == parsed.warnings
        carrying(i) == {j \in 1..Len(M) : int(M[j].idx) = i}
        first(i) == CHOOSE j \in carrying(i) : \A h \in carrying(i) : j <= h
    IN /\ IndexSet(P) = {int(M[j].idx) : j \in 1..Len(M)}
       /\ \A k \in 1..Len(P) :
            /\ P[k].type = upper(M[first(P[k].index)].typ)
            /\ P[k].original = M[first(P[k].index)].value
       /\ \A i \in IndexSet(P) :
            Occurrences(W, <<"Duplicate parameter index ", i,
                             "; ignoring subsequent value.">>)
              = Cardinality(carrying(i)) - 1
       /\ Len(SelectSeq(W, IsDuplicate)) = Len(M) - Cardinality(IndexSet(P))

C4_Witness ==
  /\ pc = "done"
  /\ Len(SelectSeq(parsed.warnings, IsDuplicate)) = 2
  /\ \E j \in 1..Len(logs) :
       /\ Matches(logs[j])
       /\ \E k \in 1..Len(parsed.params) :
            /\ parsed.params[k].index = int(logs[j].idx)
            /\ parsed.params[k].original # groups(logs[j]).value

\* C5: the bindings parse_logs returns are strictly ascending by index,
\* whatever the order of the records in the text.
C5_SortedStrictly ==
  pc = "done" =>
    \A k \in 1..(Len(parsed.params) - 1) :
      parsed.params[k].index < parsed.params[k + 1].index

C5_Witness ==
  /\ pc = "done"
  /\ Len(parsed.params) = 3
  /\ int(logs[1].idx) > int(logs[2].idx)
  /\ int(logs[2].idx) > int(logs[3].idx)

\* C6: the "not contiguous" warning appears once exactly when the captured
\* indices are non-empty and not 1..N, after every duplicate warning, and it
\* does not block: without errors and with matching counts a final SQL results.
C6_NotContiguousWarning ==
  pc = "done" =>
    LET P == results.params
        D == results.diagnostics
        gap == P # <<>> /\ IndexSet(P) # 1..Len(P)
        at == {i \in 1..Len(D) :
                 D[i] = <<"Parameter indexes are not contiguous starting at 1.">>}
    IN /\ Cardinality(at) = IF gap THEN 1 ELSE 0
       /\ \A i \in at : \A j \in 1..Len(D) : IsDuplicate(D[j]) => j < i
       /\ (gap /\ NoErrors(P) /\ Cardinality(Placeholders(sql)) = Len(P)) =>
            results.final_sql # None

C6_Witness ==
  /\ pc = "done"
  /\ IndexSet(results.params) = {2, 5}
  /\ Cardinality(Placeholders(sql)) = 2
  /\ results.final_sql # None
  /\ \E i \in 1..Len(results.diagnostics) :
       results.diagnostics[i] = <<"Parameter indexes are not contiguous starting at 1.">>

\* C7: a template with N placeholders and N bindings, all of a numeric type with
\* a value matching the numeric pattern, yields a final SQL with no "?" left and
\* one literal substituted per placeholder.
AllNumeric(params) ==
  \A k \in 1..Len(params) :
    /\ params[k].type \in {INTEGER, BIGINT, DECIMAL, DOUBLE}
    /\ fullmatch_numeric(strip(params[k].original))

C7_NumericRoundTrip ==
  (pc = "done" /\ Cardinality(Placeholders(sql)) = Len(results.params)
     /\ AllNumeric(results.params)) =>
    /\ results.final_sql # None
    /\ Placeholders(results.final_sql) = {}
    /\ results.final_sql =
         OrdinalSubstitution(sql, [k \in 1..Len(results.params) |->
                                    strip(results.params[k].original)])

C7_Witness ==
  /\ pc = "done"
  /\ Len(results.params) = 2
  /\ Cardinality(Placeholders(sql)) = 2
  /\ AllNumeric(results.params)
  /\ results.params[1].original # results.params[2].original

\* C8: every binding parse_logs returns has an index of at least 1; a record
\* whose declared index is not positive never becomes a binding.
C8_IndexPositive ==
  pc = "done" => \A k \in 1..Len(parsed.params) : parsed.params[k].index >= 1

\* C9: a String-class binding whose raw value is not "null" becomes a
\* parenthesized, comma-joined list of its trimmed, quote-doubled, quoted parts,
\* with the note "Expanded parameter i into IN list.", exactly when the expand
\* flag is set and the raw value holds a comma; otherwise it becomes the whole
\* raw value, quotes doubled, in one pair of quotes, with no note.  No other
\* type class produces the note.
RECURSIVE TrimLeft(_)
TrimLeft(s) == IF s # <<>> /\ Head(s) \in {" ", "\t"} THEN TrimLeft(Tail(s)) ELSE s

RECURSIVE TrimRight(_)
TrimRight(s) ==
  IF s # <<>> /\ s[Len(s)] \in {" ", "\t"} THEN TrimRight(SubSeq(s, 1, Len(s) - 1)) ELSE s

RECURSIVE Doubled(_)
Doubled(s) ==
  IF s = <<>> THEN <<>>
  ELSE IF s[Len(s)] = "'" THEN Doubled(SubSeq(s, 1, Len(s) - 1)) \o <<"'", "'">>
  ELSE Append(Doubled(SubSeq(s, 1, Len(s) - 1)), s[Len(s)])

Commas(val) == {i \in 1..Len(val) : val[i] = ","}

\* the position of the k-th comma; 0 before the first, Len + 1 after the last
Cut(val, k) ==
  IF k = 0 THEN 0
  ELSE IF k > Cardinality(Commas(val)) THEN Len(val) + 1
  ELSE CHOOSE i \in Commas(val) : Cardinality({j \in Commas(val) : j < i}) = k - 1

RECURSIVE InListFrom(_, _)
InListFrom(val, k) ==
  LET part == SubSeq(val, Cut(val, k - 1) + 1, Cut(val, k) - 1)
      item == <<"'">> \o Doubled(TrimRight(TrimLeft(part))) \o <<"'">>
  IN IF k > Cardinality(Commas(val)) THEN item \o <<")">>
     ELSE item \o <<",">> \o InListFrom(val, k + 1)

IsNullWord(val) ==
  /\ Len(val) = 4
  /\ val[1] \in {"n", "N"}
  /\ val[2] \in {"u", "U"}
  /\ val[3] \in {"l", "L"}
  /\ val[4] \in {"l", "L"}

C9_StringLiteral ==
  pc = "done" =>
    LET p == param.param
        val == p.original
        before == param.diagnostics
        after == normalized.diagnostics
        note == <<"Expanded parameter ", p.index, " into IN list.">>
    IN /\ (p.type \in {VARCHAR, CHAR, LONGVARCHAR} /\ ~IsNullWord(val)) =>
            /\ normalized.param.error = None
            /\ IF expand_in /\ Commas(val) # {}
               THEN /\ normalized.param.normalized = <<"(">> \o InListFrom(val, 1)
                    /\ after = Append(before, note)
               ELSE /\ normalized.param.normalized = <<"'">> \o Doubled(val) \o <<"'">>
                    /\ after = before
       /\ (p.type \in {VARCHAR, CHAR, LONGVARCHAR} /\ val = <<"i","t","'","s">>) =>
            normalized.param.normalized = <<"'","i","t","'","'","s","'">>
       /\ (p.type \in {VARCHAR, CHAR, LONGVARCHAR} /\ expand_in
             /\ val = <<"R","E","A","L",",","F","A","K","E">>) =>
            normalized.param.normalized =
              <<"(","'","R","E","A","L","'",",","'","F","A","K","E","'",")">>
       /\ p.type \notin {VARCHAR, CHAR, LONGVARCHAR} =>
            \A i \in 1..Len(after) : ~IsExpanded(after[i])

C9_Witness ==
  /\ pc = "done"
  /\ expand_in
  /\ param.param.type = CHAR
  /\ param.param.original = <<" ", "'", ",">>
  /\ normalized.param.normalized = <<"(", "'", "'", "'", "'", ",", "'", "'", ")">>
  /\ Len(normalized.diagnostics) = Len(param.diagnostics) + 1

\* C10: whatever the declared type and the expand flag, a raw value equal to
\* "null" case-insensitively is normalized to NULL, with no error and no new
\* diagnostic.
C10_NullLiteral ==
  (pc = "done" /\ IsNullWord(param.param.original)) =>
    /\ normalized.param.normalized = <<"N","U","L","L">>
    /\ normalized.param.error = None
    /\ normalized.diagnostics = param.diagnostics

C10_Witness ==
  /\ pc = "done"
  /\ param.param.original = <<"N","u","l","l">>
  /\ param.param.type = BOOLEAN_
  /\ normalized.param.normalized = <<"N","U","L","L">>

====
